---- MODULE Spec2Model ----
(***************************************************************************)
(* Model of the document redactor:                                         *)
(*   - upload_pdf and process_pdf_in_background (app/routers/uploads.py),  *)
(*     the ingestion job that turns an uploaded PDF into Page rows and     *)
(*     drives Upload.status;                                               *)
(*   - redact_upload (app/routers/pages.py), the batch run that writes     *)
(*     RedactedPage rows, and get_redaction_service, the dependency that   *)
(*     is resolved before it;                                              *)
(*   - the session discipline of app/database.py (autoflush off, explicit  *)
(*     commit, close discards what was not committed);                     *)
(*   - ModelManager (app/core.py), the holder of the two loaded engines;   *)
(*   - RedactionService (app/redactor.py): word filtering, PII             *)
(*     classification and drawing;                                         *)
(*   - redact_endpoint (app/routers.py), the single-image endpoint.        *)
(* The store `db` holds only committed rows.  Every session keeps its own  *)
(* uncommitted work, and a commit either applies all of it or raises and   *)
(* applies none of it.  The actions of redact_upload start where its       *)
(* parameters are bound: a session of its own and a redaction engine whose *)
(* call on a page either raises or returns a redacted image.               *)
(***************************************************************************)
EXTENDS Integers, Sequences, FiniteSets, TLC

\* ---------------------------------------------------------------- bounds
MaxUploads  == 1
MaxDocPages == 2
MaxRuns     == 2

UploadIds == 1..MaxUploads
RunIds    == 1..MaxRuns

\* ------------------------------------------------------------ UploadStatus
PENDING    == "PENDING"
PROCESSING == "PROCESSING"
DONE       == "DONE"
FAILED     == "FAILED"
UploadStatus == {PENDING, PROCESSING, DONE, FAILED}

\* No value: Python's None (an unset primary key, a clean attribute).
None == "None"

\* ------------------------------------------------------------- documents
\* A raw PDF as the decoder sees it: fitz.open raises on a corrupt stream;
\* otherwise it has n_pages pages, and rendering page `bad` (if any) raises.
Docs ==
    {[corrupt |-> TRUE, n_pages |-> 0, bad |-> 0]}
    \cup {d \in [corrupt : {FALSE},
                    n_pages : 1..MaxDocPages,
                    bad     : 0..MaxDocPages] : d.bad <= d.n_pages}

\* page.get_pixmap(dpi=300) of the page at 0-based index `index`: the
\* raster of that page of the source document.
Pixmap(raw_pdf, index) == <<"pixmap", index>>

ContentTypes == {"application/pdf", "image/png"}

\* img.save(buf, format="JPEG", quality=95): the stored bytes are the JPEG
\* encoding of the raster, not the raster.
Jpeg(raster) == <<"JPEG", raster>>

\* result["redacted_image"]: the PNG encoding of the page image after the
\* redaction engine drew over it.
Png(img_bytes) == <<"PNG", "redacted", img_bytes>>

\* --------------------------------------------------------------- sessions
\* An ingestion session: `status` is the uncommitted value assigned to
\* upload_record.status (None when clean), `new` the Page objects added and
\* not yet committed.
EmptySession == [status |-> None, new |-> <<>>]

VARIABLES db, job, run, manager, req, eng, ep

vars == <<db, job, run, manager, req, eng, ep>>

\* The state outside the store and its sessions: the model manager, the
\* requests resolving their redaction service, the redaction engine, the
\* requests of the single-image endpoint.
service_vars == <<manager, req, eng, ep>>

\* ------------------------------------------------------------------ store
\* INSERT of the session's new Page objects: the pages.id sequence gives
\* each row the next integer primary key.
InsertPages(d, new) ==
    [d EXCEPT !.pages = @ \cup {[id          |-> d.page_seq + i,
                                 upload_id   |-> new[i].upload_id,
                                 page_number |-> new[i].page_number,
                                 img_bytes   |-> new[i].img_bytes] :
                                    i \in 1..Len(new)},
              !.page_seq = @ + Len(new)]

\* UPDATE uploads SET status = ... for the session's dirty upload_record.
UpdateStatus(d, upload_id, status) ==
    IF status = None \/ upload_id \notin DOMAIN d.uploads
    THEN d
    ELSE [d EXCEPT !.uploads[upload_id].status = status]

\* A successful db.commit() of an ingestion session: flush everything the
\* session holds (new rows and the dirty status) in one transaction.
Commit(d, upload_id, sess) ==
    UpdateStatus(InsertPages(d, sess.new), upload_id, sess.status)

Rollback_keepsPending(sess) == sess

\* db.rollback(): everything not committed is dropped from the session.
Rollback(sess) == EmptySession

PagesOf(d, upload_id) == {p \in d.pages : p.upload_id = upload_id}

\* ------------------------------------------------------------- upload_pdf
\* POST /upload.  A non-PDF content type is answered 400 and a failing
\* commit surfaces as an error; neither leaves anything behind.  Otherwise
\* the Upload row is committed with status PENDING and the ingestion job is
\* queued with the raw bytes and the new id.  The id is a fresh uuid4; the
\* model takes the next unused one.
UploadPdf ==
    \E content_type \in ContentTypes, commit_ok \in BOOLEAN :
        LET id == Cardinality(DOMAIN db.uploads) + 1 IN
        IF content_type # "application/pdf" \/ ~commit_ok
        THEN UNCHANGED vars
        ELSE \E raw_pdf \in Docs :
             /\ id \in UploadIds
             /\ db' = [db EXCEPT !.uploads =
                          [u \in DOMAIN @ \cup {id} |->
                              IF u = id THEN [status |-> PENDING]
                                       ELSE @[u]]]
             /\ job' = [job EXCEPT ![id].pc = "queued",
                                   ![id].raw_pdf = raw_pdf]
             /\ UNCHANGED <<run, service_vars>>

\* ------------------------------------------- process_pdf_in_background
NoJob == [pc |-> "none", raw_pdf |-> None, page_number |-> 0,
          pages_to_add |-> <<>>, sess |-> EmptySession,
          raised_at |-> None, crashed_at |-> None]

\* The steps of the job between which other sessions can commit.
Running == {"queued", "commit_processing", "open", "render",
            "commit_pages", "commit_done", "handler"}

\* An exception inside the try block: control goes to the except clause.
Raise(j, at) == [j EXCEPT !.pc = "handler", !.raised_at = at]

\* The function is left (return, exception or death of the worker): its
\* locals and its session are gone.
Leave(j, pc) == [j EXCEPT !.pc = pc, !.page_number = 0,
                          !.pages_to_add = <<>>, !.sess = EmptySession]

AfterSetProcessing_noCommit == "open"

\* Lines 32-33: after upload_record.status = PROCESSING comes db.commit().
AfterSetProcessing == "commit_processing"

\* Lines 20-32: open a session, look the Upload up; return when it is
\* missing, otherwise assign PROCESSING to the record.
IngestBegin(u) ==
    /\ job[u].pc = "queued"
    /\ IF u \notin DOMAIN db.uploads
       THEN job' = [job EXCEPT ![u] = Leave(@, "returned")]
       ELSE job' = [job EXCEPT ![u].pc = AfterSetProcessing,
                               ![u].sess.status = PROCESSING]
    /\ UNCHANGED <<db, run, service_vars>>

\* Line 33: commit PROCESSING; the commit can raise.
IngestCommitProcessing(u) ==
    /\ job[u].pc = "commit_processing"
    /\ \E ok \in BOOLEAN :
        IF ok
        THEN /\ db' = Commit(db, u, job[u].sess)
             /\ job' = [job EXCEPT ![u].pc = "open",
                                   ![u].sess = EmptySession]
        ELSE /\ job' = [job EXCEPT ![u] = Raise(@, "commit_processing")]
             /\ UNCHANGED db
    /\ UNCHANGED <<run, service_vars>>

\* Line 37: fitz.open raises on a corrupt stream.
IngestOpen(u) ==
    /\ job[u].pc = "open"
    /\ IF job[u].raw_pdf.corrupt
       THEN job' = [job EXCEPT ![u] = Raise(@, "open")]
       ELSE job' = [job EXCEPT ![u].pc = "render",
                               ![u].page_number = 0,
                               ![u].pages_to_add = <<>>]
    /\ UNCHANGED <<db, run, service_vars>>

PageModel_zeroBased(upload_id, page_number, raw_pdf) ==
    [upload_id   |-> upload_id,
     page_number |-> page_number,
     img_bytes   |-> Jpeg(Pixmap(raw_pdf, page_number))]

\* Lines 41-53: the Page object built in loop iteration `page_number`
\* (0-based) from the page rendered at that index.
PageModel(upload_id, page_number, raw_pdf) ==
    [upload_id   |-> upload_id,
     page_number |-> page_number + 1,
     img_bytes   |-> Jpeg(Pixmap(raw_pdf, page_number))]

AddAll_dropsLast(sess, pages_to_add) ==
    [sess EXCEPT !.new = @ \o SubSeq(pages_to_add, 1, Len(pages_to_add) - 1)]

\* Line 57: db.add_all(pages_to_add).
AddAll(sess, pages_to_add) == [sess EXCEPT !.new = @ \o pages_to_add]

IngestRender_commitsEachPage(u) ==
    /\ job[u].pc = "render"
    /\ LET j == job[u]
           n == j.raw_pdf.n_pages IN
       IF j.page_number < n
       THEN IF j.raw_pdf.bad = j.page_number + 1
            THEN /\ job' = [job EXCEPT ![u] = Raise(@, "render")]
                 /\ UNCHANGED db
            ELSE /\ db' = InsertPages(db, <<PageModel(u, j.page_number,
                                                      j.raw_pdf)>>)
                 /\ job' = [job EXCEPT ![u].page_number = @ + 1]
       ELSE /\ job' = [job EXCEPT ![u].pc = "commit_pages"]
            /\ UNCHANGED db
    /\ UNCHANGED <<run, service_vars>>

\* Lines 40-57: one loop iteration (render, encode, append), and after the
\* last one add_all.  Rendering the document's bad page raises.
IngestRender(u) ==
    /\ job[u].pc = "render"
    /\ LET j == job[u]
           n == j.raw_pdf.n_pages IN
       IF j.page_number < n
       THEN IF j.raw_pdf.bad = j.page_number + 1
            THEN job' = [job EXCEPT ![u] = Raise(@, "render")]
            ELSE job' = [job EXCEPT
                    ![u].pages_to_add =
                        Append(@, PageModel(u, j.page_number, j.raw_pdf)),
                    ![u].page_number = @ + 1]
       ELSE job' = [job EXCEPT ![u].pc = "commit_pages",
                               ![u].sess = AddAll(@, j.pages_to_add)]
    /\ UNCHANGED <<db, run, service_vars>>

\* Lines 58-61: commit the Page rows, then assign DONE to the record.
IngestCommitPages(u) ==
    /\ job[u].pc = "commit_pages"
    /\ \E ok \in BOOLEAN :
        IF ok
        THEN /\ db' = Commit(db, u, job[u].sess)
             /\ job' = [job EXCEPT ![u].pc = "commit_done",
                                   ![u].sess = [EmptySession EXCEPT
                                                    !.status = DONE]]
        ELSE /\ job' = [job EXCEPT ![u] = Raise(@, "commit_pages")]
             /\ UNCHANGED db
    /\ UNCHANGED <<run, service_vars>>

\* Lines 62-63 and 72: commit DONE, close the session, return.
IngestCommitDone(u) ==
    /\ job[u].pc = "commit_done"
    /\ \E ok \in BOOLEAN :
        IF ok
        THEN /\ db' = Commit(db, u, job[u].sess)
             /\ job' = [job EXCEPT ![u] = Leave(@, "returned")]
        ELSE /\ job' = [job EXCEPT ![u] = Raise(@, "commit_done")]
             /\ UNCHANGED db
    /\ UNCHANGED <<run, service_vars>>

\* Lines 65-72: the except clause: rollback, assign FAILED, commit.  When
\* this commit raises too the exception leaves the function; the finally
\* clause closes the session either way.
IngestHandler(u) ==
    /\ job[u].pc = "handler"
    /\ \E ok \in BOOLEAN :
        LET sess == [Rollback(job[u].sess) EXCEPT !.status = FAILED] IN
        IF ok
        THEN /\ db' = Commit(db, u, sess)
             /\ job' = [job EXCEPT ![u] = Leave(@, "returned")]
        ELSE /\ job' = [job EXCEPT ![u] = Leave(@, "raised")]
             /\ UNCHANGED db
    /\ UNCHANGED <<run, service_vars>>

\* The worker dies while the job is queued or running: the session and
\* whatever it had not committed are gone, the store keeps what was
\* committed.
Crash(u) ==
    /\ job[u].pc \in Running
    /\ job' = [job EXCEPT ![u] = Leave([@ EXCEPT !.crashed_at = job[u].pc],
                                        "crashed")]
    /\ UNCHANGED <<db, run, service_vars>>

\* ----------------------------------------------------------- redact_upload
\* A batch run's session holds the RedactedPage objects merged and not yet
\* committed (autoflush is off, so nothing reaches the store before commit).
NoRun == [pc |-> "idle", upload_id |-> None, pages |-> <<>>, i |-> 0,
          sess |-> <<>>, results |-> <<>>,
          engine_calls |-> 0, error |-> None, summary |-> None]

\* .order_by(Page.page_number).all(): the rows as a list, ascending.
RECURSIVE OrderByPageNumber(_)
OrderByPageNumber(S) ==
    IF S = {} THEN <<>>
    ELSE LET m == CHOOSE p \in S : \A q \in S :
                      \/ p.page_number < q.page_number
                      \/ p.page_number = q.page_number /\ p.id <= q.id
         IN <<m>> \o OrderByPageNumber(S \ {m})

\* raise HTTPException(...) or an exception passing through redact_upload:
\* the request ends with the error and get_db closes its session.
Fail(rn, error) ==
    [rn EXCEPT !.pc = "raised", !.error = error, !.sess = <<>>,
               !.pages = <<>>, !.results = <<>>]

Close_commits(d, sess) ==
    [d EXCEPT !.redacted_pages = @ \cup {[id |-> d.redacted_seq + k,
                                          page_id |-> sess[k].page_id,
                                          redacted_bytes |-> sess[k].redacted_bytes] :
                                             k \in 1..Len(sess)},
              !.redacted_seq = @ + Len(sess)]

\* get_db's finally: db.close() ends the session; what it had not committed
\* never reaches the store.
Close(d, sess) == d

\* Lines 40-42: the request arrives with its own session; load the Upload,
\* 404 when there is none.
RedactGetUpload(r) ==
    /\ run[r].pc = "idle"
    /\ \E upload_id \in UploadIds :
        IF upload_id \notin DOMAIN db.uploads
        THEN /\ run' = [run EXCEPT ![r] =
                    Fail([@ EXCEPT !.upload_id = upload_id], "404 Upload not found")]
             /\ db' = Close(db, run[r].sess)
        ELSE /\ run' = [run EXCEPT ![r].pc = "query_pages",
                                   ![r].upload_id = upload_id]
             /\ UNCHANGED db
    /\ UNCHANGED <<job, service_vars>>

NoPages_never(pages) == FALSE

\* Line 45: `if not pages`.
NoPages(pages) == pages = <<>>

\* Lines 44-46: query the Upload's pages in page_number order, 404 when the
\* list is empty.
RedactQueryPages(r) ==
    /\ run[r].pc = "query_pages"
    /\ LET pages == OrderByPageNumber(PagesOf(db, run[r].upload_id)) IN
       IF NoPages(pages)
       THEN /\ run' = [run EXCEPT ![r] = Fail(@, "404 No pages found for this upload")]
            /\ db' = Close(db, run[r].sess)
       ELSE /\ run' = [run EXCEPT ![r].pc = IF pages = <<>> THEN "commit"
                                                            ELSE "loop",
                                  ![r].pages = pages,
                                  ![r].i = 0]
            /\ UNCHANGED db
    /\ UNCHANGED <<job, service_vars>>

\* Lines 57-60: the RedactedPage object of a page; its primary key is unset.
RedactedPageModel(page, redacted_image) ==
    [id |-> None, page_id |-> page.id, redacted_bytes |-> redacted_image]

\* Line 61: db.merge(obj).  merge looks the object up by primary key; with
\* the key unset there is nothing to look up and a new pending object is
\* added to the session.
Merge(sess, obj) == Append(sess, obj)

\* Lines 51-67: one loop iteration.  The engine either raises (the error
\* leaves redact_upload, the session is closed) or returns the redacted
\* image and its boxes.  The box counts are only copied into the summary
\* and are left out of the model.
RedactPage(r) ==
    /\ run[r].pc = "loop"
    /\ LET rn   == run[r]
           page == rn.pages[rn.i + 1] IN
       \E raises \in BOOLEAN :
        IF raises
        THEN /\ run' = [run EXCEPT ![r] =
                    Fail([@ EXCEPT !.engine_calls = @ + 1],
                         "RuntimeError")]
             /\ db' = Close(db, rn.sess)
        ELSE /\ run' = [run EXCEPT
                    ![r].engine_calls = @ + 1,
                    ![r].sess = Merge(@, RedactedPageModel(page,
                                            Png(page.img_bytes))),
                    ![r].results = Append(@, [page_id     |-> page.id,
                                              page_number |-> page.page_number]),
                    ![r].i = @ + 1,
                    ![r].pc = IF rn.i + 1 = Len(rn.pages) THEN "commit"
                                                          ELSE "loop"]
             /\ UNCHANGED db
    /\ UNCHANGED <<job, service_vars>>

FlushRedacted_overwritesPages(d, sess) ==
    [d EXCEPT !.redacted_pages = @ \cup {[id |-> d.redacted_seq + k,
                                          page_id |-> sess[k].page_id,
                                          redacted_bytes |-> sess[k].redacted_bytes] :
                                             k \in 1..Len(sess)},
              !.redacted_seq = @ + Len(sess),
              !.pages = {IF \E k \in 1..Len(sess) : sess[k].page_id = p.id
                         THEN [p EXCEPT !.img_bytes =
                                 (CHOOSE o \in {sess[k] : k \in 1..Len(sess)} :
                                     o.page_id = p.id).redacted_bytes]
                         ELSE p : p \in @}]

\* The flush of a successful commit: every pending RedactedPage object has
\* no primary key, so each is INSERTed and the redacted_pages.id sequence
\* gives it the next integer.
FlushRedacted(d, sess) ==
    [d EXCEPT !.redacted_pages = @ \cup {[id |-> d.redacted_seq + k,
                                          page_id |-> sess[k].page_id,
                                          redacted_bytes |-> sess[k].redacted_bytes] :
                                             k \in 1..Len(sess)},
              !.redacted_seq = @ + Len(sess)]

\* Lines 69-76: the single commit after the loop, then the summary.  The
\* commit can raise; the error leaves redact_upload.
RedactCommit(r) ==
    /\ run[r].pc = "commit"
    /\ \E ok \in BOOLEAN :
        IF ok
        THEN /\ db' = FlushRedacted(db, run[r].sess)
             /\ run' = [run EXCEPT
                    ![r].pc = "returned",
                    ![r].sess = <<>>,
                    ![r].pages = <<>>,
                    ![r].results = <<>>,
                    ![r].summary = [upload_id   |-> run[r].upload_id,
                                    total_pages |-> Len(run[r].pages),
                                    pages       |-> run[r].results]]
        ELSE /\ run' = [run EXCEPT ![r] = Fail(@, "CommitError")]
             /\ db' = Close(db, run[r].sess)
    /\ UNCHANGED <<job, service_vars>>

\* ------------------------------------------------------------ ModelManager
MaxInitCalls == 2

\* ModelManager._instance and the fields of the instance.  `instance` is 0
\* while _instance is None, otherwise the number of the object constructed
\* (the k-th ModelManager() is object k); the engine fields are None until
\* loaded.  `created`, `loads`, `init_calls`, `last_loaded` and `returned`
\* record what the calls so far did: objects constructed, successful loads
\* per engine, initialize() calls made, the engines the last initialize()
\* loaded, the objects the accessors handed out.
NoManager == [instance |-> 0, easyocr_reader |-> None, gliner |-> None,
              created |-> 0, loads |-> [easyocr |-> 0, gliner |-> 0],
              init_calls |-> 0, last_loaded |-> {}, returned |-> {}]

\* The objects the loaders return.
Reader == "easyocr.Reader"
GLiNER == "GLiNER"

\* ModelManager.get_instance(): construct the instance when there is none
\* (__init__ sets both engine fields to None), return _instance.
GetInstance(m) ==
    LET made == IF m.instance = 0
                THEN [m EXCEPT !.instance = m.created + 1,
                               !.created = @ + 1,
                               !.easyocr_reader = None,
                               !.gliner = None]
                ELSE m
    IN [made EXCEPT !.returned = @ \cup {made.instance}]

\* A call of ModelManager.get_instance().
GetInstanceCall ==
    /\ manager' = GetInstance(manager)
    /\ UNCHANGED <<db, job, run, req, eng, ep>>

\* A call of get_model_manager(), which returns ModelManager.get_instance().
GetModelManager ==
    /\ manager' = GetInstance(manager)
    /\ UNCHANGED <<db, job, run, req, eng, ep>>

NeedsLoad_always(engine) == TRUE

\* `if self.easyocr_reader is None`, `if self.gliner is None`.
NeedsLoad(engine) == engine = None

\* initialize() on the instance an accessor returned.  Each engine is loaded
\* when its field is None; a loader can raise (no model files, no model
\* name), which ends the call with the fields assigned so far.
Initialize ==
    /\ manager.instance # 0
    /\ manager.init_calls < MaxInitCalls
    /\ \E easyocr_ok, gliner_ok \in BOOLEAN :
        LET m0 == [manager EXCEPT !.init_calls = @ + 1, !.last_loaded = {}]
            m1 == IF NeedsLoad(m0.easyocr_reader) /\ easyocr_ok
                  THEN [m0 EXCEPT !.easyocr_reader = Reader,
                                  !.loads.easyocr = @ + 1,
                                  !.last_loaded = @ \cup {"easyocr"}]
                  ELSE m0
            raised == NeedsLoad(m0.easyocr_reader) /\ ~easyocr_ok
            m2 == IF ~raised /\ NeedsLoad(m1.gliner) /\ gliner_ok
                  THEN [m1 EXCEPT !.gliner = GLiNER,
                                  !.loads.gliner = @ + 1,
                                  !.last_loaded = @ \cup {"gliner"}]
                  ELSE m1
        IN manager' = m2
    /\ UNCHANGED <<db, job, run, req, eng, ep>>

\* -------------------------------------------------- get_redaction_service
\* A POST /redact/{upload_id} request whose dependencies are not resolved
\* yet.
NoRequest == [pc |-> "arrived", upload_id |-> 0, error |-> None]

\* The parameters of RedactionService.__init__ besides self, and those
\* without a default.
InitParams == {"gliner_model", "confidence_threshold", "box_padding"}
InitRequired == {"gliner_model"}

\* RedactionService(**kwargs): binding the keyword arguments to the
\* parameters raises TypeError for a keyword that is no parameter or a
\* missing required one; __init__ raises ValueError for a falsy model.
NewRedactionService(kwargs) ==
    IF ~(DOMAIN kwargs \subseteq InitParams /\ InitRequired \subseteq DOMAIN kwargs)
    THEN "TypeError"
    ELSE IF kwargs.gliner_model = None
    THEN "ValueError"
    ELSE "RedactionService"

ModelsUnavailable_readerOnly(m) == m.easyocr_reader = None

\* Line 18: `if not manager.easyocr_reader or not manager.gliner`.
ModelsUnavailable(m) == m.easyocr_reader = None \/ m.gliner = None

\* Lines 17-26, run by Depends() before the body of redact_upload: 503 when
\* an engine is missing, otherwise construct the service.  An exception of
\* the constructor ends the request before redact_upload is entered.
GetRedactionService(r) ==
    /\ req[r].pc = "arrived"
    /\ \E upload_id \in UploadIds :
        LET m       == GetInstance(manager)
            service == NewRedactionService([reader       |-> m.easyocr_reader,
                                            gliner_model |-> m.gliner])
        IN /\ manager' = m
           /\ req' = [req EXCEPT ![r] =
                 IF ModelsUnavailable(m)
                 THEN [pc |-> "raised", upload_id |-> upload_id,
                       error |-> "503"]
                 ELSE IF service # "RedactionService"
                 THEN [pc |-> "raised", upload_id |-> upload_id,
                       error |-> service]
                 ELSE [pc |-> "bound", upload_id |-> upload_id,
                       error |-> None]]
    /\ UNCHANGED <<db, job, run, eng, ep>>

\* ------------------------------------------------------- RedactionService
MaxWords == 2

\* The default of the confidence_threshold parameter.
confidence_threshold_default == 60

\* Strings are sequences of characters.
Whitespace == {" "}
DigitChars == <<"0", "1", "2", "3", "4", "5", "6", "7", "8", "9">>

\* str.strip(): drop the leading and the trailing whitespace.
RECURSIVE StripLeft(_)
StripLeft(str) ==
    IF str # <<>> /\ Head(str) \in Whitespace THEN StripLeft(Tail(str))
    ELSE str

RECURSIVE StripRight(_)
StripRight(str) ==
    IF str # <<>> /\ str[Len(str)] \in Whitespace
    THEN StripRight(SubSeq(str, 1, Len(str) - 1))
    ELSE str

Strip(str) == StripRight(StripLeft(str))

\* str.isdigit(): not empty and decimal digits only.
IsDigit(str) ==
    /\ str # <<>>
    /\ \A k \in 1..Len(str) : \E d \in 1..10 : DigitChars[d] = str[k]

\* int(str) of a string of decimal digits.
RECURSIVE IntOf(_)
IntOf(str) ==
    IF str = <<>> THEN 0
    ELSE 10 * IntOf(SubSeq(str, 1, Len(str) - 1))
         + (CHOOSE d \in 1..10 : DigitChars[d] = str[Len(str)]) - 1

\* str(n) of an integer n >= 0, as the OCR engine writes a confidence.
RECURSIVE ToDigits(_)
ToDigits(n) ==
    IF n < 10 THEN <<DigitChars[n + 1]>>
    ELSE ToDigits(n \div 10) \o <<DigitChars[(n % 10) + 1]>>

\* ' '.join(words).
RECURSIVE Join(_)
Join(words) ==
    IF words = <<>> THEN <<>>
    ELSE IF Len(words) = 1 THEN words[1]
    ELSE words[1] \o <<" ">> \o Join(Tail(words))

\* A box value as Python holds it: a tuple of numbers (`xywh`), a list of
\* [x, y] points (`points`), or None.
Tuple(xywh) == [form |-> "tuple", xywh |-> xywh, points |-> <<>>]
Polygon(points) == [form |-> "list", xywh |-> <<>>, points |-> points]
NoBox == [form |-> "None", xywh |-> <<>>, points |-> <<>>]

\* The confidence column of the OCR output: an int, a str, or a float.
IntConf(c) == [type |-> "int", v |-> c, str |-> <<>>]
StrConf(str) == [type |-> "str", v |-> 0, str |-> str]
FloatConf == [type |-> "float", v |-> 0, str |-> <<>>]

\* The (block_num, par_num, line_num) keys of the OCR output.
LineKeys == {<<1, 1, 1>>, <<1, 1, 2>>}

\* The rows image_to_data can yield for a service with threshold t: text
\* with and without visible characters, confidences at and just below t in
\* each representation.  Row i of a page has its own box.
Words(t) ==
    [text : {<<" ">>, <<" ", "a", " ">>},
     conf : {IntConf(t - 1), IntConf(t), StrConf(ToDigits(t)), FloatConf},
     key  : LineKeys]

OcrOutputs(t) == UNION {[1..n -> Words(t)] : n \in 0..MaxWords}

\* (left, top, width, height) of row i.
BoxOf(i) == <<10 * i, 10, 40, 30>>

\* Lines 46-50: the confidence as an int; -1 for what is no number.
ConfOf(conf_score) ==
    IF conf_score.type = "str"
    THEN IF IsDigit(conf_score.str) THEN IntOf(conf_score.str) ELSE -1
    ELSE IF conf_score.type # "int" THEN -1
    ELSE conf_score.v

BelowThreshold_orEqual(conf, confidence_threshold) ==
    conf <= confidence_threshold

\* Line 52: `conf < self.confidence_threshold`.
BelowThreshold(conf, confidence_threshold) == conf < confidence_threshold

\* Lines 55-58: append the word and its box to the entry of its key; a new
\* key gets a new entry after the existing ones (dict insertion order).
AddWord(lines, key, word, box) ==
    IF \E k \in 1..Len(lines) : lines[k].key = key
    THEN [k \in 1..Len(lines) |->
            IF lines[k].key = key
            THEN [lines[k] EXCEPT !.words = Append(@, word),
                                  !.boxes = Append(@, box)]
            ELSE lines[k]]
    ELSE Append(lines, [key |-> key, words |-> <<word>>, boxes |-> <<box>>])

\* Lines 41-58: the loop over the rows from row i on.
RECURSIVE GroupLines(_, _, _, _)
GroupLines(data, i, confidence_threshold, lines) ==
    IF i > Len(data) THEN lines
    ELSE LET word == Strip(data[i].text)
             conf == ConfOf(data[i].conf)
         IN IF word = <<>> \/ BelowThreshold(conf, confidence_threshold)
            THEN GroupLines(data, i + 1, confidence_threshold, lines)
            ELSE GroupLines(data, i + 1, confidence_threshold,
                            AddWord(lines, data[i].key, word,
                                    Tuple(BoxOf(i))))

\* Lines 39-63: the text fragments of the OCR output, one per line key.
DetectTextAndBoxes(data, confidence_threshold) ==
    LET lines == GroupLines(data, 1, confidence_threshold, <<>>)
    IN [k \in 1..Len(lines) |->
           [text |-> Join(lines[k].words), boxes |-> lines[k].boxes]]

PiiLabels_noAddress == {"PERSON", "EMAIL", "PHONE"}

\* Lines 75 and 77: the labels that make a fragment PII.
PiiLabels == {"PERSON", "EMAIL", "PHONE", "ADDRESS"}

\* What predict_entities can do for one fragment: raise, or return the
\* labels of the entities it found.
Predictions ==
    {[raises |-> TRUE, ents |-> <<>>]} \cup
    [raises : {FALSE},
     ents   : {<<>>, <<"ORG">>, <<"PERSON">>, <<"EMAIL">>, <<"PHONE">>,
               <<"ORG", "ADDRESS">>}]

\* Line 77: any(e["label"] in {...} for e in ents).
HasPii(ents) == \E k \in 1..Len(ents) : ents[k] \in PiiLabels

AfterRaise_leavesLoop(k, n) == n + 1

\* Lines 79-80: the except clause is inside the loop body; after it the
\* loop goes on with the next entry.
AfterRaise(k, n) == k + 1

\* Lines 68-81: the loop of classify_pii from entry k on.
RECURSIVE ClassifyPii(_, _, _, _)
ClassifyPii(lines, predictions, k, pii_boxes) ==
    IF k > Len(lines) THEN pii_boxes
    ELSE IF predictions[k].raises
    THEN ClassifyPii(lines, predictions, AfterRaise(k, Len(lines)), pii_boxes)
    ELSE ClassifyPii(lines, predictions, k + 1,
                     IF HasPii(predictions[k].ents)
                     THEN pii_boxes \o lines[k].boxes
                     ELSE pii_boxes)

\* Lines 87-88 for one box: `x, y, w, h = box`, then draw.rectangle of
\* [x, y, x + w, y + h].  Unpacking needs an iterable of exactly four items;
\* four points unpack, x + w then concatenates two lists and draw.rectangle
\* raises on the nested coordinates.  Every failure is an Exception.
DrawRectangle(box) ==
    IF box.form = "tuple" /\ Len(box.xywh) = 4
    THEN [error |-> None,
          rect  |-> <<box.xywh[1], box.xywh[2],
                      box.xywh[1] + box.xywh[3], box.xywh[2] + box.xywh[4]>>]
    ELSE [error |-> "Exception", rect |-> <<>>]

\* Lines 85-89: the rectangles drawn on the image, or the exception of the
\* first box that cannot be drawn (the image is then not returned).
RedactImage(boxes) ==
    IF \E k \in 1..Len(boxes) : DrawRectangle(boxes[k]).error # None
    THEN [error |-> "Exception", drawn |-> {}]
    ELSE [error |-> None,
          drawn |-> {DrawRectangle(boxes[k]).rect : k \in 1..Len(boxes)}]

\* The service object and the call made on it.  `call` is the method
\* called from outside ("process_redaction" or "redact_image"), `data` the
\* OCR output of the image, `lines` the fragments, `predictions` what the
\* classifier did per fragment, `boxes` the box list given to redact_image,
\* `drawn` the rectangles filled black in the returned image.
NoEngine == [pc |-> "off", confidence_threshold |-> 0, call |-> None,
             data |-> <<>>, lines |-> <<>>, predictions |-> <<>>,
             boxes |-> <<>>, drawn |-> {}, error |-> None]

\* RedactionService(gliner_model[, confidence_threshold]).
Construct ==
    /\ eng.pc = "off"
    /\ \E kwargs \in {[gliner_model |-> None],
                      [gliner_model |-> GLiNER],
                      [gliner_model |-> GLiNER, confidence_threshold |-> 0],
                      [gliner_model |-> GLiNER, confidence_threshold |-> 100]} :
        LET service == NewRedactionService(kwargs) IN
        IF service # "RedactionService"
        THEN eng' = [eng EXCEPT !.pc = "raised", !.error = service]
        ELSE eng' = [eng EXCEPT
                 !.pc = "ready",
                 !.confidence_threshold =
                     IF "confidence_threshold" \in DOMAIN kwargs
                     THEN kwargs.confidence_threshold
                     ELSE confidence_threshold_default]
    /\ UNCHANGED <<db, job, run, manager, req, ep>>

\* Lines 93-94: process_redaction(image_bytes) starts with
\* detect_text_and_boxes.  Image.open raises on undecodable bytes and the
\* OCR call can raise; process_redaction turns either into RuntimeError.
Detect ==
    /\ eng.pc = "ready"
    /\ \E ok \in BOOLEAN :
        IF ~ok
        THEN eng' = [eng EXCEPT !.pc = "raised", !.error = "RuntimeError",
                                !.call = "process_redaction"]
        ELSE \E data \in OcrOutputs(eng.confidence_threshold) :
             eng' = [eng EXCEPT
                 !.pc = "classify",
                 !.call = "process_redaction",
                 !.data = data,
                 !.lines = DetectTextAndBoxes(data, eng.confidence_threshold)]
    /\ UNCHANGED <<db, job, run, manager, req, ep>>

\* Line 95: classify_pii(lines); the classifier answers or raises for each
\* fragment it is given.
Classify ==
    /\ eng.pc = "classify"
    /\ \E predictions \in [1..Len(eng.lines) -> Predictions] :
        eng' = [eng EXCEPT
            !.pc = "redact",
            !.predictions = predictions,
            !.boxes = ClassifyPii(eng.lines, predictions, 1, <<>>)]
    /\ UNCHANGED <<db, job, run, manager, req, ep>>

\* Lines 96-105: redact_image on a copy, encode, return; an exception is
\* turned into RuntimeError.
Redact ==
    /\ eng.pc = "redact"
    /\ LET image == RedactImage(eng.boxes) IN
       IF image.error # None
       THEN eng' = [eng EXCEPT !.pc = "raised", !.error = "RuntimeError"]
       ELSE eng' = [eng EXCEPT !.pc = "returned", !.drawn = image.drawn]
    /\ UNCHANGED <<db, job, run, manager, req, ep>>

\* The box lists redact_image is called with directly.
BoxValues ==
    {Tuple(<<10, 10, 40, 30>>),
     Tuple(<<20, 10, 40, 30>>),
     Polygon(<<<<10, 10>>, <<50, 10>>, <<50, 40>>, <<10, 40>>>>),
     Tuple(<<10, 10, 40>>),
     NoBox}

BoxLists == UNION {[1..n -> BoxValues] : n \in 0..MaxWords}

\* redact_image(image, boxes) called on the service by itself.
CallRedactImage ==
    /\ eng.pc = "ready"
    /\ \E boxes \in BoxLists :
        LET image == RedactImage(boxes) IN
        eng' = [eng EXCEPT
            !.pc = IF image.error # None THEN "raised" ELSE "returned",
            !.call = "redact_image",
            !.boxes = boxes,
            !.drawn = image.drawn,
            !.error = image.error]
    /\ UNCHANGED <<db, job, run, manager, req, ep>>

\* --------------------------------------------------------- redact_endpoint
\* A POST /redact request: `read` and `processed` tell whether the image
\* bytes were read and whether process_redaction was called.
NoEndpoint == [pc |-> "arrived", method |-> None, read |-> FALSE,
               processed |-> FALSE, response |-> None]

Methods == {"black", "blur", "pixelate", ""}

Unsupported_never(method) == FALSE

\* Line 21: `if method not in ['black', 'blur']`.
Unsupported(method) == method \notin {"black", "blur"}

\* Lines 21-25: the first statement of the handler, outside its try block:
\* HTTPException(400) for an unsupported method.
EndpointCheck(r) ==
    /\ ep[r].pc = "arrived"
    /\ \E method \in Methods :
        IF Unsupported(method)
        THEN ep' = [ep EXCEPT ![r].pc = "done", ![r].method = method,
                              ![r].response = "400"]
        ELSE ep' = [ep EXCEPT ![r].pc = "read", ![r].method = method]
    /\ UNCHANGED <<db, job, run, manager, req, eng>>

\* Line 29: contents = await image.read(); an exception is answered 500
\* (lines 43-44).
EndpointRead(r) ==
    /\ ep[r].pc = "read"
    /\ \E ok \in BOOLEAN :
        IF ok
        THEN ep' = [ep EXCEPT ![r].pc = "process", ![r].read = TRUE]
        ELSE ep' = [ep EXCEPT ![r].pc = "done", ![r].response = "500"]
    /\ UNCHANGED <<db, job, run, manager, req, eng>>

\* Lines 32-44: process_redaction(contents, method), the name imported from
\* .redactor on line 3.  Its result is answered 200 with the PNG, an
\* exception 500.
EndpointProcess(r) ==
    /\ ep[r].pc = "process"
    /\ \E ok \in BOOLEAN :
        ep' = [ep EXCEPT ![r].pc = "done", ![r].processed = TRUE,
                         ![r].response = IF ok THEN "200" ELSE "500"]
    /\ UNCHANGED <<db, job, run, manager, req, eng>>

\* ---------------------------------------------------------- specification
Init ==
    /\ db = [uploads        |-> [u \in {} |-> [status |-> PENDING]],
             pages          |-> {},
             redacted_pages |-> {},
             page_seq       |-> 0,
             redacted_seq   |-> 0]
    /\ job = [u \in UploadIds |-> NoJob]
    /\ run = [r \in RunIds |-> NoRun]
    /\ manager = NoManager
    /\ req = [r \in RunIds |-> NoRequest]
    /\ eng = NoEngine
    /\ ep = [r \in RunIds |-> NoEndpoint]

\* The first upload of a fresh store.
FirstUpload == DOMAIN db.uploads = {} /\ UploadPdf

\* One Upload from its creation on, its ingestion job, and batch runs
\* arriving at any moment.
Next ==
    \/ FirstUpload
    \/ \E u \in UploadIds : IngestBegin(u)
    \/ \E u \in UploadIds : IngestCommitProcessing(u)
    \/ \E u \in UploadIds : IngestOpen(u)
    \/ \E u \in UploadIds : IngestRender(u)
    \/ \E u \in UploadIds : IngestCommitPages(u)
    \/ \E u \in UploadIds : IngestCommitDone(u)
    \/ \E u \in UploadIds : IngestHandler(u)
    \/ \E u \in UploadIds : Crash(u)
    \/ \E r \in RunIds : RedactGetUpload(r)
    \/ \E r \in RunIds : RedactQueryPages(r)
    \/ \E r \in RunIds : RedactPage(r)
    \/ \E r \in RunIds : RedactCommit(r)

Spec == Init /\ [][Next]_vars

\* The ingestion jobs of up to MaxUploads uploads running concurrently.
NextIngest ==
    \/ UploadPdf
    \/ \E u \in UploadIds : IngestBegin(u)
    \/ \E u \in UploadIds : IngestCommitProcessing(u)
    \/ \E u \in UploadIds : IngestOpen(u)
    \/ \E u \in UploadIds : IngestRender(u)
    \/ \E u \in UploadIds : IngestCommitPages(u)
    \/ \E u \in UploadIds : IngestCommitDone(u)
    \/ \E u \in UploadIds : IngestHandler(u)
    \/ \E u \in UploadIds : Crash(u)

SpecIngest == Init /\ [][NextIngest]_vars

\* One Upload and its ingestion job, the model manager and its callers, and
\* POST /redact/{upload_id} requests resolving their redaction service.
NextRoute ==
    \/ FirstUpload
    \/ \E u \in UploadIds : IngestBegin(u)
    \/ \E u \in UploadIds : IngestCommitProcessing(u)
    \/ \E u \in UploadIds : IngestOpen(u)
    \/ \E u \in UploadIds : IngestRender(u)
    \/ \E u \in UploadIds : IngestCommitPages(u)
    \/ \E u \in UploadIds : IngestCommitDone(u)
    \/ \E u \in UploadIds : IngestHandler(u)
    \/ GetInstanceCall
    \/ GetModelManager
    \/ Initialize
    \/ \E r \in RunIds : GetRedactionService(r)

SpecRoute == Init /\ [][NextRoute]_vars

\* One RedactionService object: its construction and one call on it.
NextEngine ==
    \/ Construct
    \/ Detect
    \/ Classify
    \/ Redact
    \/ CallRedactImage

SpecEngine == Init /\ [][NextEngine]_vars

\* POST /redact requests.
NextEndpoint ==
    \/ \E r \in RunIds : EndpointCheck(r)
    \/ \E r \in RunIds : EndpointRead(r)
    \/ \E r \in RunIds : EndpointProcess(r)

SpecEndpoint == Init /\ [][NextEndpoint]_vars

\* ------------------------------------------------------------- properties
StatusOf(u) == db.uploads[u].status

\* Where a job is, or was when its worker died.
At(j) == IF j.pc = "crashed" THEN j.crashed_at ELSE j.pc

\* The Page rows an n-page document is expected to yield for Upload u,
\* without their primary keys.
ExpectedPages(u, raw_pdf) ==
    {[upload_id   |-> u,
      page_number |-> k,
      img_bytes   |-> Jpeg(Pixmap(raw_pdf, k - 1))] : k \in 1..raw_pdf.n_pages}

WithoutId(p) == [upload_id   |-> p.upload_id,
                 page_number |-> p.page_number,
                 img_bytes   |-> p.img_bytes]

\* Run r takes a step: every action of redact_upload moves its pc or its
\* loop index.
RunStep(r) == <<run[r].pc, run[r].i>> # <<run'[r].pc, run'[r].i>>

\* C1: the persisted status of an Upload changes only PENDING -> PROCESSING,
\* PROCESSING -> DONE or PROCESSING -> FAILED; in particular never from
\* PENDING straight to DONE or FAILED, and never away from DONE or FAILED.
C1_StatusPath ==
    [][\A u \in DOMAIN db.uploads :
          StatusOf(u) # db'.uploads[u].status =>
              <<StatusOf(u), db'.uploads[u].status>> \in
                  {<<PENDING, PROCESSING>>, <<PROCESSING, DONE>>,
                   <<PROCESSING, FAILED>>}]_vars

\* C2: when the job of an N-page document returns and no step raised,
\* the Upload has exactly N Page rows, numbered 1..N in document order
\* (page k holds the image of the k-th source page, and primary keys grow
\* with page_number), and its persisted status is DONE.
C2_CompleteIngestion ==
    \A u \in DOMAIN db.uploads :
        (job[u].pc = "returned" /\ job[u].raised_at = None) =>
            /\ StatusOf(u) = DONE
            /\ Cardinality(PagesOf(db, u)) = job[u].raw_pdf.n_pages
            /\ {WithoutId(p) : p \in PagesOf(db, u)}
                   = ExpectedPages(u, job[u].raw_pdf)
            /\ \A p, q \in PagesOf(db, u) :
                   p.page_number < q.page_number => p.id < q.id

C2_Witness ==
    \E u \in DOMAIN db.uploads :
        /\ job[u].pc = "returned"
        /\ job[u].raised_at = None
        /\ job[u].raw_pdf.n_pages >= 2

\* C3: when decoding, page encoding or the bulk Page commit raised and the
\* job has returned, the Upload has no Page row and its persisted status is
\* FAILED.
C3_FailedIngestion ==
    \A u \in DOMAIN db.uploads :
        (job[u].pc = "returned"
            /\ job[u].raised_at \in {"open", "render", "commit_pages"}) =>
            /\ PagesOf(db, u) = {}
            /\ StatusOf(u) = FAILED

C3_Witness ==
    \E u \in DOMAIN db.uploads :
        /\ job[u].pc = "returned"
        /\ job[u].raised_at = "commit_pages"
        /\ job[u].raw_pdf.n_pages >= 2

\* C4: in every state of the store, an Upload whose persisted status is
\* DONE has all the Page rows of its document, numbered 1..N.
C4_DoneImpliesAllPages ==
    \A u \in DOMAIN db.uploads :
        StatusOf(u) = DONE =>
            /\ {p.page_number : p \in PagesOf(db, u)}
                   = 1..job[u].raw_pdf.n_pages
            /\ Cardinality(PagesOf(db, u)) = job[u].raw_pdf.n_pages

C4_Witness ==
    \E u \in DOMAIN db.uploads :
        /\ StatusOf(u) = DONE
        /\ job[u].raw_pdf.n_pages >= 2
        /\ \E r \in RunIds : run[r].pc = "loop" /\ run[r].upload_id = u

\* C5: however often redact_upload ran, no Page has more than one
\* RedactedPage row.
C5_OneRedactedPerPage ==
    \A p \in db.pages :
        Cardinality({x \in db.redacted_pages : x.page_id = p.id}) <= 1

\* C6: a batch run whose engine call raises ends with that error, and no
\* step of a run other than its successful commit writes a RedactedPage
\* row: the merges made for the earlier pages are never committed.
C6_AbortWithoutPartialCommit ==
    [][\A r \in RunIds :
          (RunStep(r) /\ run'[r].pc # "returned") =>
              /\ db'.redacted_pages = db.redacted_pages
              /\ (run[r].pc = "loop" /\ run'[r].pc = "raised") =>
                     /\ run'[r].error = "RuntimeError"
                     /\ run'[r].sess = <<>>]_vars

C6_Witness ==
    \E r \in RunIds :
        /\ run[r].pc = "raised"
        /\ run[r].error = "RuntimeError"
        /\ run[r].engine_calls >= 2

\* The run ended with HTTPException(404) before any engine call.
NotFound(rn) ==
    /\ rn.pc = "raised"
    /\ rn.error \in {"404 Upload not found",
                     "404 No pages found for this upload"}
    /\ rn.engine_calls = 0

\* C7: a run for an id without Upload row, and a run for an Upload without
\* Page rows, end with the 404 error; the engine was never called and the
\* store is unchanged.
C7_NotFound ==
    [][\A r \in RunIds :
          /\ (run[r].pc = "idle" /\ RunStep(r)
                 /\ run'[r].upload_id \notin DOMAIN db.uploads) =>
                 (NotFound(run'[r]) /\ db' = db)
          /\ (run[r].pc = "query_pages" /\ RunStep(r)
                 /\ PagesOf(db, run[r].upload_id) = {}) =>
                 (NotFound(run'[r]) /\ db' = db)]_vars

C7_Witness ==
    \E r \in RunIds :
        /\ run[r].pc = "raised"
        /\ run[r].error = "404 No pages found for this upload"
        /\ run[r].upload_id \in DOMAIN db.uploads

\* C8: no step of a batch run, whatever its outcome, changes an Upload's
\* status or a Page row.
C8_BatchLeavesUploadsAndPages ==
    [][(\E r \in RunIds : RunStep(r)) =>
          (db'.uploads = db.uploads /\ db'.pages = db.pages)]_vars

C8_Witness ==
    \E r \in RunIds :
        /\ run[r].pc = "returned"
        /\ run[r].summary.total_pages >= 2
        /\ db.redacted_pages # {}

\* The job is, or was when its worker died, between the start of decoding
\* and the commit of the Page rows or of a final status.
InDecomposition(j) ==
    \/ At(j) \in {"open", "render", "commit_pages"}
    \/ At(j) = "handler" /\ j.raised_at \in {"open", "render", "commit_pages"}

\* C9: from the moment decoding starts until the Page rows or a final
\* status are committed, the persisted status is PROCESSING; so it is when
\* the worker died in that stretch.
C9_ProcessingBeforeDecoding ==
    \A u \in DOMAIN db.uploads :
        InDecomposition(job[u]) => StatusOf(u) = PROCESSING

C9_Witness ==
    \E u \in DOMAIN db.uploads :
        /\ job[u].pc = "crashed"
        /\ job[u].crashed_at = "render"

\* C10: a job that has left process_pdf_in_background, by return or by an
\* exception, leaves the persisted status DONE or FAILED.
C10_EndsDoneOrFailed ==
    \A u \in DOMAIN db.uploads :
        job[u].pc \in {"returned", "raised"} =>
            StatusOf(u) \in {DONE, FAILED}

\* C19: whatever the interleaving of an ingestion job with batch runs on
\* the same Upload, the Page rows visible in the store are none or the
\* complete set numbered 1..N, and the page list a run iterates over is
\* never a proper part of that set.
C19_PagesEmptyOrComplete ==
    \A u \in DOMAIN db.uploads :
        LET n == job[u].raw_pdf.n_pages IN
        /\ \/ PagesOf(db, u) = {}
           \/ /\ {p.page_number : p \in PagesOf(db, u)} = 1..n
              /\ Cardinality(PagesOf(db, u)) = n
        /\ \A r \in RunIds :
               (run[r].pc \in {"loop", "commit"} /\ run[r].upload_id = u) =>
                   /\ Len(run[r].pages) = n
                   /\ \A k \in 1..n : run[r].pages[k].page_number = k

C19_Witness ==
    \E u \in DOMAIN db.uploads, r1, r2 \in RunIds :
        /\ job[u].pc = "commit_done"
        /\ job[u].raw_pdf.n_pages >= 2
        /\ run[r1].pc = "loop" /\ run[r1].upload_id = u
        /\ run[r2].pc = "raised" /\ run[r2].upload_id = u
        /\ run[r2].error = "404 No pages found for this upload"

\* C20: in every state of the store, an Upload whose persisted status is
\* FAILED has no Page row, whichever step of the job raised.
C20_FailedHasNoPages ==
    \A u \in DOMAIN db.uploads :
        StatusOf(u) = FAILED => PagesOf(db, u) = {}

\* C13: over any sequence of accessor and initialize() calls, each engine
\* is loaded at most once, one ModelManager object is ever constructed and
\* every accessor call hands out that object.
C13_LoadedOnce ==
    /\ manager.loads.easyocr <= 1
    /\ manager.loads.gliner <= 1
    /\ manager.created <= 1
    /\ manager.returned \subseteq {manager.instance}
    /\ manager.instance = 0 => manager.returned = {}

\* An initialize() call made when both engines were loaded.
C13_Witness ==
    /\ manager.init_calls >= 2
    /\ manager.last_loaded = {}
    /\ manager.easyocr_reader = Reader
    /\ manager.gliner = GLiNER
    /\ manager.returned = {1}

\* C12: a request resolved while an engine is missing ends with the 503
\* error; the step reads and writes nothing in the store, starts no batch
\* run, and loads no engine (the manager's engine fields are unchanged).
C12_UnavailableBeforeAnyWork ==
    [][\A r \in RunIds :
          (req[r].pc = "arrived" /\ req'[r].pc # "arrived"
              /\ (manager.easyocr_reader = None \/ manager.gliner = None)) =>
              /\ req'[r].pc = "raised"
              /\ req'[r].error = "503"
              /\ db' = db
              /\ run' = run
              /\ manager'.easyocr_reader = manager.easyocr_reader
              /\ manager'.gliner = manager.gliner
              /\ manager'.loads = manager.loads]_vars

\* A request refused while the reader was loaded and the GLiNER model was
\* not (an engine never unloads).
C12_Witness ==
    \E r \in RunIds :
        /\ req[r].error = "503"
        /\ manager.easyocr_reader = Reader
        /\ manager.gliner = None
        /\ PagesOf(db, req[r].upload_id) # {}

\* C11: a request for an Upload with at least one Page, resolved while both
\* engines are loaded, enters redact_upload (which then returns the summary
\* when every redaction succeeds).
C11_BatchRunsWhenReady ==
    [][\A r \in RunIds :
          (req[r].pc = "arrived" /\ req'[r].pc # "arrived"
              /\ manager.easyocr_reader # None /\ manager.gliner # None
              /\ PagesOf(db, req'[r].upload_id) # {}) =>
              req'[r].pc = "bound"]_vars

\* The elements of a list.
Elements(list) == {list[k] : k \in 1..Len(list)}

\* The boxes of all fragments.
FragmentBoxes(lines) == UNION {Elements(lines[k].boxes) : k \in 1..Len(lines)}

\* process_redaction has got the fragments of its image.
Detected == eng.call = "process_redaction" /\ eng.pc \in {"classify", "redact", "returned"}

\* process_redaction has got the PII boxes of its image.
Classified == eng.call = "process_redaction" /\ eng.pc \in {"redact", "returned"}

\* C14: a word with an integer confidence c is kept in a fragment exactly
\* when its trimmed text is not empty and c >= confidence_threshold (so
\* c = threshold is kept and c = threshold - 1 is dropped), and the box of a
\* dropped word is never among the PII boxes or the rectangles drawn.
C14_ThresholdFilter ==
    Detected =>
        \A i \in 1..Len(eng.data) :
            eng.data[i].conf.type = "int" =>
                LET kept == Tuple(BoxOf(i)) \in FragmentBoxes(eng.lines) IN
                /\ kept <=> /\ Strip(eng.data[i].text) # <<>>
                            /\ eng.data[i].conf.v >= eng.confidence_threshold
                /\ ~kept => /\ Tuple(BoxOf(i)) \notin Elements(eng.boxes)
                            /\ DrawRectangle(Tuple(BoxOf(i))).rect \notin eng.drawn

C14_Witness ==
    /\ eng.pc = "returned"
    /\ eng.call = "process_redaction"
    /\ eng.confidence_threshold = 60
    /\ \E i, j \in 1..Len(eng.data) :
        /\ eng.data[i].conf = IntConf(60)
        /\ eng.data[j].conf = IntConf(59)
        /\ eng.data[i].key = eng.data[j].key
        /\ eng.data[i].text = eng.data[j].text
        /\ DrawRectangle(Tuple(BoxOf(i))).rect \in eng.drawn

\* The classifier's answers with every raise replaced by "no entity".
RaiseAsNoEntity(predictions) ==
    [k \in 1..Len(predictions) |-> [raises |-> FALSE,
                                    ents   |-> predictions[k].ents]]

\* C15: when the classifier raises for a fragment, classify_pii still
\* returns: the fragment contributes no box, every other fragment is still
\* classified (the boxes of each PII fragment are in the result), and the
\* result is what it would be had the classifier found nothing there.
C15_ClassifierErrorIsolated ==
    Classified =>
        /\ \A k \in 1..Len(eng.lines) :
               IF eng.predictions[k].raises
               THEN Elements(eng.lines[k].boxes) \cap Elements(eng.boxes) = {}
               ELSE (\E e \in Elements(eng.predictions[k].ents) :
                         e \in {"PERSON", "EMAIL", "PHONE", "ADDRESS"}) =>
                    Elements(eng.lines[k].boxes) \subseteq Elements(eng.boxes)
        /\ eng.boxes = ClassifyPii(eng.lines, RaiseAsNoEntity(eng.predictions),
                                   1, <<>>)

C15_Witness ==
    /\ eng.pc = "returned"
    /\ eng.call = "process_redaction"
    /\ Len(eng.lines) = 2
    /\ eng.predictions[1].raises
    /\ eng.predictions[2].ents = <<"EMAIL">>
    /\ Cardinality(eng.drawn) = 1

\* The rectangle the two box forms stand for: (x, y, x + w, y + h), and
\* the bounds of the four points.
AxisAligned(box) ==
    IF box.form = "tuple"
    THEN <<box.xywh[1], box.xywh[2],
           box.xywh[1] + box.xywh[3], box.xywh[2] + box.xywh[4]>>
    ELSE LET xs == {box.points[k][1] : k \in 1..4}
             ys == {box.points[k][2] : k \in 1..4}
         IN <<CHOOSE x \in xs : \A o \in xs : x <= o,
              CHOOSE y \in ys : \A o \in ys : y <= o,
              CHOOSE x \in xs : \A o \in xs : x >= o,
              CHOOSE y \in ys : \A o \in ys : y >= o>>

WellFormed(box) ==
    \/ box.form = "tuple" /\ Len(box.xywh) = 4
    \/ box.form = "list" /\ Len(box.points) = 4

\* C16: redact_image draws, for every well-formed box of its list, the
\* rectangle the box stands for, the same for the four-point form as for the
\* (x, y, width, height) form, and skips a malformed entry without failing.
C16_BoxForms ==
    (eng.call = "redact_image" /\ eng.pc # "ready") =>
        /\ eng.error = None
        /\ eng.drawn = {AxisAligned(b) : b \in {c \in Elements(eng.boxes) :
                                                   WellFormed(c)}}

RECURSIVE BoxCount(_, _)
BoxCount(lines, K) ==
    IF K = {} THEN 0
    ELSE LET k == CHOOSE x \in K : TRUE
         IN Len(lines[k].boxes) + BoxCount(lines, K \ {k})

\* C18: the PII boxes are exactly the boxes of the fragments for which the
\* classifier returned at least one entity labelled PERSON, EMAIL, PHONE or
\* ADDRESS: all boxes of such a fragment, no box of another, and as many
\* boxes as those fragments have together.
C18_PiiRegions ==
    Classified =>
        LET pii == {k \in 1..Len(eng.lines) :
                       /\ ~eng.predictions[k].raises
                       /\ \E e \in Elements(eng.predictions[k].ents) :
                              e \in {"PERSON", "EMAIL", "PHONE", "ADDRESS"}}
        IN /\ Elements(eng.boxes) =
                  UNION {Elements(eng.lines[k].boxes) : k \in pii}
           /\ Len(eng.boxes) = BoxCount(eng.lines, pii)
           /\ eng.pc = "returned" => Cardinality(eng.drawn) = Len(eng.boxes)

C18_Witness ==
    /\ eng.pc = "returned"
    /\ eng.call = "process_redaction"
    /\ \E k \in 1..Len(eng.lines) :
        /\ Len(eng.lines[k].boxes) = 2
        /\ eng.predictions[k].ents = <<"ORG", "ADDRESS">>
    /\ Cardinality(eng.drawn) = 2

====
